---- MODULE Spec2Model ----
(***************************************************************************)
(* Model of the SolaX Cloud integration: the SolaXCloudAPI client          *)
(* (solax_cloud.py) with its polling lock and timeout task, and the poll   *)
(* coordinator (sensor.py) that classifies the client's outcomes.          *)
(***************************************************************************)
EXTENDS Integers, Sequences, FiniteSets, TLC

(***************************************************************************)
(* Bounds                                                                  *)
(***************************************************************************)
\* number of _async_update_data / fetch_api_data invocations in a behaviour
NumCalls == 2

Calls == 1..NumCalls

\* the power readings range over -MaxPower..MaxPower
MaxPower == 2

\* "no call": value of _polling_task = None and of a free lock's holder
NoCall == 0

(***************************************************************************)
(* JSON values and HTTP responses                                          *)
(***************************************************************************)
JBool(b) == [kind |-> "bool", b |-> b, n |-> 0]
JInt(n) == [kind |-> "int", b |-> FALSE, n |-> n]

\* Python: v is True
IsTrue(v) == v.kind = "bool" /\ v.b

\* Python: v == n for an int n (bool is a subclass of int)
PyEq(v, n) ==
    \/ v.kind = "int" /\ v.n = n
    \/ v.kind = "bool" /\ (IF v.b THEN 1 ELSE 0) = n

\* Python: key in dict
Has(d, k) == k \in DOMAIN d

EmptyDict == [k \in {} |-> 0]

HTTP_OK == 200

StatusCodes == {HTTP_OK, 500}

SuccessValues == {JBool(TRUE), JBool(FALSE), JInt(1)}

CodeValues == {JInt(0), JInt(103), JInt(104)}

ResultValues ==
    { [acpower |-> 1500, soc |-> 42],
      [acpower |-> 0, soc |-> 0, inverterSN |-> "INV1"] }

DeviceIds == {"D1", "D2"}

\* the errors httpx raises as httpx.RequestError
TransportErrors == {"ConnectError", "ReadTimeout"}

\* the decoded JSON objects: every combination of present/absent
\* success, code and result
HeadDicts ==
    UNION { [D -> SuccessValues] : D \in SUBSET {"success"} }

CodeDicts ==
    UNION { [D -> CodeValues] : D \in SUBSET {"code"} }

ResultDicts ==
    UNION { [D -> ResultValues] : D \in SUBSET {"result"} }

Bodies == { s @@ c @@ r : s \in HeadDicts, c \in CodeDicts, r \in ResultDicts }

\* a response that arrived: parses is FALSE when the body is not JSON
HttpResponse(status, parses, data) ==
    [transport |-> "ok", status_code |-> status, parses |-> parses, data |-> data]

\* the GET failed with a httpx.RequestError
TransportFailure(err) ==
    [transport |-> err, status_code |-> 0, parses |-> FALSE, data |-> EmptyDict]

\* the bodies sent with a status other than 200: an empty object and the
\* structured error bodies
ErrorBodies == { b \in Bodies : ~Has(b, "success") /\ ~Has(b, "result") }

Responses ==
    { TransportFailure(e) : e \in TransportErrors }
    \cup { HttpResponse(s, FALSE, EmptyDict) : s \in StatusCodes }
    \cup { HttpResponse(HTTP_OK, TRUE, d) : d \in Bodies }
    \cup { HttpResponse(s, TRUE, d) : s \in StatusCodes \ {HTTP_OK}, d \in ErrorBodies }

(***************************************************************************)
(* Outcomes of a call                                                      *)
(***************************************************************************)
Return(v) ==
    [kind |-> "return", exc |-> "none", cause |-> "none", none |-> FALSE, value |-> v]

\* falling off the end of the function: Python returns None
ReturnNone ==
    [kind |-> "return", exc |-> "none", cause |-> "none", none |-> TRUE, value |-> EmptyDict]

Raise(e, cause) ==
    [kind |-> "raise", exc |-> e, cause |-> cause, none |-> FALSE, value |-> EmptyDict]

NoOutcome ==
    [kind |-> "none", exc |-> "none", cause |-> "none", none |-> FALSE, value |-> EmptyDict]

\* a variant with the two error codes exchanged
ClassifyCodeSwapped(data) ==
    IF ~Has(data, "code") THEN Raise("KeyError", "none")
    ELSE IF PyEq(data["code"], 0) THEN Raise("InvalidAPIToken", "none")
    ELSE IF PyEq(data["code"], 103) THEN Raise("InvalidDeviceSN", "none")
    ELSE Raise("ConnectionFailed", "none")

\* solax_cloud.py lines 41-49 (and 71-82): the decoded body, after the
\* success test failed
ClassifyCode(data) ==
    IF ~Has(data, "code") THEN Raise("KeyError", "none")
    ELSE IF PyEq(data["code"], 103) THEN Raise("InvalidAPIToken", "none")
    ELSE IF PyEq(data["code"], 0) THEN Raise("InvalidDeviceSN", "none")
    ELSE Raise("ConnectionFailed", "none")

\* a variant that returns the whole decoded body instead of its result
fetch_api_data_whole_body(resp) ==
    IF resp.transport # "ok" THEN Raise("ConnectionFailed", resp.transport)
    ELSE IF resp.status_code = HTTP_OK
    THEN IF ~resp.parses THEN Raise("JSONDecodeError", "none")
         ELSE IF Has(resp.data, "success") /\ IsTrue(resp.data["success"])
         THEN Return(resp.data)
         ELSE ClassifyCode(resp.data)
    ELSE ReturnNone

\* solax_cloud.py lines 36-52: what fetch_api_data does with the response
fetch_api_data(resp) ==
    IF resp.transport # "ok" THEN Raise("ConnectionFailed", resp.transport)
    ELSE IF resp.status_code = HTTP_OK
    THEN IF ~resp.parses THEN Raise("JSONDecodeError", "none")
         ELSE IF Has(resp.data, "success") /\ IsTrue(resp.data["success"])
         THEN IF Has(resp.data, "result")
              THEN Return(resp.data["result"])
              ELSE Raise("KeyError", "none")
         ELSE ClassifyCode(resp.data)
    ELSE ReturnNone

\* a variant that reports the inverter serial as sn
fetch_device_metadata_inverter_as_sn(resp, device_id) ==
    IF resp.transport # "ok" THEN Raise("ConnectionFailed", resp.transport)
    ELSE IF resp.status_code = HTTP_OK
    THEN IF ~resp.parses THEN Raise("JSONDecodeError", "none")
         ELSE IF Has(resp.data, "success") /\ IsTrue(resp.data["success"])
         THEN IF Has(resp.data, "result") /\ Has(resp.data["result"], "inverterSN")
              THEN Return([sn |-> resp.data["result"]["inverterSN"],
                           inverterSN |-> resp.data["result"]["inverterSN"]])
              ELSE Raise("KeyError", "none")
         ELSE ClassifyCode(resp.data)
    ELSE ReturnNone

\* solax_cloud.py lines 65-84
fetch_device_metadata(resp, device_id) ==
    IF resp.transport # "ok" THEN Raise("ConnectionFailed", resp.transport)
    ELSE IF resp.status_code = HTTP_OK
    THEN IF ~resp.parses THEN Raise("JSONDecodeError", "none")
         ELSE IF Has(resp.data, "success") /\ IsTrue(resp.data["success"])
         THEN IF Has(resp.data, "result") /\ Has(resp.data["result"], "inverterSN")
              THEN Return([sn |-> device_id,
                           inverterSN |-> resp.data["result"]["inverterSN"]])
              ELSE Raise("KeyError", "none")
         ELSE ClassifyCode(resp.data)
    ELSE ReturnNone

\* a variant without the handler for InvalidDeviceSN
_async_update_data_no_device_handler(outcome) ==
    IF outcome.kind = "raise" /\ outcome.exc = "InvalidAPIToken"
    THEN Raise("ConfigEntryAuthFailed", "InvalidAPIToken")
    ELSE IF outcome.kind = "raise" /\ outcome.exc = "ConnectionFailed"
    THEN Raise("UpdateFailed", "ConnectionFailed")
    ELSE outcome

\* sensor.py lines 135-147: SolaXAPICoordinator._async_update_data applied to
\* the outcome of its one fetch_api_data call
_async_update_data(outcome) ==
    IF outcome.kind = "raise" /\ outcome.exc = "InvalidAPIToken"
    THEN Raise("ConfigEntryAuthFailed", "InvalidAPIToken")
    ELSE IF outcome.kind = "raise" /\ outcome.exc = "InvalidDeviceSN"
    THEN Raise("ConfigEntryAuthFailed", "InvalidDeviceSN")
    ELSE IF outcome.kind = "raise" /\ outcome.exc = "ConnectionFailed"
    THEN Raise("UpdateFailed", "ConnectionFailed")
    ELSE outcome

\* config_flow.py lines 33-53: validate_input applied to the outcome of its
\* fetch_device_metadata call; metadata["sn"] fails on a returned None
validate_input(outcome) ==
    IF outcome.kind = "return"
    THEN IF outcome.none
         THEN Raise("TypeError", "none")
         ELSE Return([title |-> outcome.value["sn"], sn |-> outcome.value["sn"]])
    ELSE IF outcome.exc = "InvalidAPIToken"
    THEN Raise("InvalidApiKey", "InvalidAPIToken")
    ELSE IF outcome.exc = "InvalidDeviceSN"
    THEN Raise("InvalidDevice", "InvalidDeviceSN")
    ELSE IF outcome.exc = "ConnectionFailed"
    THEN Raise("ConnectionError", "ConnectionFailed")
    ELSE outcome

\* the result of a config flow step: the form shown again with an error, or
\* the config entry created
FlowForm(error) == [entry |-> FALSE, error |-> error, title |-> "none"]

FlowEntry(title) == [entry |-> TRUE, error |-> "none", title |-> title]

NoFlow == [entry |-> FALSE, error |-> "none", title |-> "none"]

\* config_flow.py lines 62-85: async_step_user with user input, applied to
\* what validate_input returned or raised
async_step_user(validated) ==
    IF validated.kind = "raise"
    THEN IF validated.exc = "CannotConnect" THEN FlowForm("cannot_connect")
         ELSE IF validated.exc = "InvalidApiKey" THEN FlowForm("invalid_api_key")
         ELSE IF validated.exc = "InvalidDevice" THEN FlowForm("invalid_device")
         ELSE FlowForm("unknown")
    ELSE FlowEntry(validated.value["title"])

(***************************************************************************)
(* Sensors                                                                 *)
(***************************************************************************)
\* JSON null, Python None
JNull == [kind |-> "null", b |-> FALSE, n |-> 0]

\* Python truth value of a JSON scalar
Truthy(v) ==
    \/ v.kind = "int" /\ v.n # 0
    \/ v.kind = "bool" /\ v.b

\* const.py lines 7-8
BIDIRECTIONAL_ABOVE_ZERO == "bidirectional_above_zero"

BIDIRECTIONAL_BELOW_ZERO == "bidirectional_below_zero"

\* sensor.py lines 35-118: the entities async_setup_entry adds, one of each
\* class and limit: a PowerSensor, the two BiDirectionalPowerSensors of
\* batPower and the BatteryChargeSensor
Sensors == {"AC power", "Battery power charging", "Battery power discharging",
            "Battery charge percentage"}

DataKey(s) ==
    CASE s = "AC power" -> "acpower"
      [] s = "Battery power charging" -> "batPower"
      [] s = "Battery power discharging" -> "batPower"
      [] s = "Battery charge percentage" -> "soc"

SensorClass(s) ==
    CASE s = "AC power" -> "PowerSensor"
      [] s = "Battery power charging" -> "BiDirectionalPowerSensor"
      [] s = "Battery power discharging" -> "BiDirectionalPowerSensor"
      [] s = "Battery charge percentage" -> "BatteryChargeSensor"

LimitValues(s) ==
    CASE s = "Battery power charging" -> BIDIRECTIONAL_ABOVE_ZERO
      [] s = "Battery power discharging" -> BIDIRECTIONAL_BELOW_ZERO
      [] OTHER -> "none"

\* sensor.py lines 155-172 and 243: the icon a sensor is constructed with
InitialIcon(s) ==
    CASE s = "AC power" -> "none"
      [] s = "Battery power charging" -> "mdi:battery-arrow-up-outline"
      [] s = "Battery power discharging" -> "mdi:battery-arrow-down-outline"
      [] s = "Battery charge percentage" -> "mdi:battery-unknown"

\* the readings of a snapshot: null, zero and non-zero numbers
AcPowerValues == {JNull, JInt(0), JInt(1500)}

BatPowerValues == {JNull} \cup { JInt(n) : n \in -MaxPower..MaxPower }

SocValues == {JNull, JInt(0), JInt(100)} \cup { JInt(10 * k + 5) : k \in 0..9 }

Snapshots ==
    { [acpower |-> a, batPower |-> b, soc |-> c] :
        a \in AcPowerValues, b \in BatPowerValues, c \in SocValues }

Max(a, b) == IF a >= b THEN a ELSE b

Min(a, b) == IF a <= b THEN a ELSE b

Abs(a) == IF a < 0 THEN -a ELSE a

\* a variant that leaves out abs() for the below-zero limit
BiDirectionalNativeValueSigned(limit_values, current_value) ==
    IF current_value.kind = "null" THEN JNull
    ELSE IF limit_values = BIDIRECTIONAL_ABOVE_ZERO
    THEN JInt(Abs(Max(0, current_value.n)))
    ELSE IF limit_values = BIDIRECTIONAL_BELOW_ZERO
    THEN JInt(Min(0, current_value.n))
    ELSE JNull

\* sensor.py lines 218-227: BiDirectionalPowerSensor.native_value
BiDirectionalNativeValue(limit_values, current_value) ==
    IF current_value.kind = "null" THEN JNull
    ELSE IF limit_values = BIDIRECTIONAL_ABOVE_ZERO
    THEN JInt(Abs(Max(0, current_value.n)))
    ELSE IF limit_values = BIDIRECTIONAL_BELOW_ZERO
    THEN JInt(Abs(Min(0, current_value.n)))
    ELSE JNull

\* sensor.py lines 184-187 and 218-227: the native_value property of sensor s
NativeValue(s, current_value) ==
    IF SensorClass(s) = "BiDirectionalPowerSensor"
    THEN BiDirectionalNativeValue(LimitValues(s), current_value)
    ELSE current_value

\* sensor.py lines 249-269: the icon chosen for a numeric charge
BatteryIcon(n) ==
    IF n = 0 THEN "mdi:battery-outline"
    ELSE IF n < 10 THEN "mdi:battery-10"
    ELSE IF n < 20 THEN "mdi:battery-20"
    ELSE IF n < 30 THEN "mdi:battery-30"
    ELSE IF n < 40 THEN "mdi:battery-40"
    ELSE IF n < 50 THEN "mdi:battery-50"
    ELSE IF n < 60 THEN "mdi:battery-60"
    ELSE IF n < 70 THEN "mdi:battery-70"
    ELSE IF n < 80 THEN "mdi:battery-80"
    ELSE IF n < 90 THEN "mdi:battery-90"
    ELSE "mdi:battery"

\* a sensor as constructed (sensor.py lines 155-172): no value, nothing written
NewSensor(s) ==
    [current_value |-> JNull, icon |-> InitialIcon(s), writes |-> 0,
     published |-> JNull, status |-> "idle"]

\* sensor.py lines 174-182: SolaXSensor._handle_coordinator_update of sensor
\* s in state st on the coordinator data d; writes counts the
\* async_write_ha_state calls, published is the native_value the last of
\* them read
SolaXSensorUpdate(s, st, d) ==
    IF Truthy(d[DataKey(s)]) /\ st.current_value # d[DataKey(s)]
    THEN [st EXCEPT !.current_value = d[DataKey(s)],
                    !.writes = @ + 1,
                    !.published = NativeValue(s, d[DataKey(s)]),
                    !.status = "ok"]
    ELSE [st EXCEPT !.status = "ok"]

\* sensor.py lines 245-272: BatteryChargeSensor._handle_coordinator_update;
\* comparing a None value with < raises TypeError
BatteryChargeSensorUpdate(s, st, d) ==
    LET up == SolaXSensorUpdate(s, st, d) IN
    IF up.current_value.kind = "null"
    THEN [up EXCEPT !.status = "TypeError"]
    ELSE IF up.icon # BatteryIcon(up.current_value.n)
    THEN [up EXCEPT !.icon = BatteryIcon(up.current_value.n),
                    !.writes = @ + 1,
                    !.published = NativeValue(s, up.current_value)]
    ELSE up

\* the _handle_coordinator_update of the class of sensor s
HandleCoordinatorUpdate(s, st, d) ==
    IF SensorClass(s) = "BatteryChargeSensor"
    THEN BatteryChargeSensorUpdate(s, st, d)
    ELSE SolaXSensorUpdate(s, st, d)

(***************************************************************************)
(* State                                                                   *)
(***************************************************************************)
VARIABLES
    pc,           \* per call: "idle", "acquire" (awaiting the lock),
                  \* "get" (HTTP GET outstanding), "done"
    locked,       \* SolaXCloudAPI._polling_lock: Lock._locked
    holder,       \* the call whose acquisition holds the lock, or NoCall
    waiters,      \* the lock's FIFO queue of waiting calls
    woken,        \* the first waiter's future has been resolved by release()
    watchdog,     \* per call: its _polling_timeout task: "unarmed", "pending", "fired"
    pollingTask,  \* SolaXCloudAPI._polling_task: the call that armed it, or NoCall
    issued,       \* the calls in the order fetch_api_data was invoked
    fetchCalls,   \* per call of _async_update_data: fetch_api_data invocations made
    lastCall,     \* the most recently completed client call
    data,         \* SolaXAPICoordinator.data: the cached snapshot, or None
    entities,     \* sensor platform setup: "none", "registered", "failed"
    sensors,      \* per sensor: _current_value, _attr_icon, the
                  \* async_write_ha_state calls made since the payload last
                  \* changed, the value last written, the last handler's end
    entry2        \* a second config entry: the position of its poll, the
                  \* lock and timeout task of its own SolaXCloudAPI, and
                  \* its coordinator's data

\* the state of the coordinator and of the sensor platform's setup
coordVars == <<data, entities>>

vars == <<pc, locked, holder, waiters, woken, watchdog, pollingTask, issued,
          fetchCalls, lastCall, coordVars, sensors, entry2>>

NoLastCall ==
    [op |-> "none", device_id |-> "none",
     resp |-> TransportFailure("none"), outcome |-> NoOutcome, update |-> NoOutcome,
     flow |-> NoFlow]

\* DataUpdateCoordinator.data before the first refresh: None
NoData == [none |-> TRUE, value |-> EmptyDict]

\* sensor.py lines 121-147: the refresh of the DataUpdateCoordinator stores
\* what _async_update_data returned and keeps the old data when it raised
CoordinatorData(old, update) ==
    IF update.kind = "return"
    THEN [none |-> update.none, value |-> update.value]
    ELSE old

\* sensor.py lines 30-35: async_setup_entry adds the entities when
\* async_config_entry_first_refresh returned, which it does when the
\* refresh did not raise
SetupEntry(update) ==
    IF update.kind = "return" THEN "registered" ELSE "failed"

\* __init__.py lines 19-20 and solax_cloud.py lines 26-29: every config entry
\* is set up with a SolaXCloudAPI of its own, whose lock is free
NewEntry == [pc |-> "idle", locked |-> FALSE, watchdog |-> "unarmed", data |-> NoData]

Init ==
    /\ pc = [c \in Calls |-> "idle"]
    /\ locked = FALSE
    /\ holder = NoCall
    /\ waiters = <<>>
    /\ woken = FALSE
    /\ watchdog = [c \in Calls |-> "unarmed"]
    /\ pollingTask = NoCall
    /\ issued = <<>>
    /\ fetchCalls = [c \in Calls |-> 0]
    /\ lastCall = NoLastCall
    /\ data = NoData
    /\ entities = "none"
    /\ sensors = [s \in Sensors |-> NewSensor(s)]
    /\ entry2 = NewEntry

(***************************************************************************)
(* Actions                                                                 *)
(***************************************************************************)
\* solax_cloud.py lines 33-40 once the lock is acquired: arm the timeout
\* task and send the GET
SendRequest(c) ==
    /\ locked' = TRUE
    /\ holder' = c
    /\ watchdog' = [watchdog EXCEPT ![c] = "pending"]
    /\ pollingTask' = c
    /\ pc' = [pc EXCEPT ![c] = "get"]

\* a variant that sends the GET without taking the polling lock
FetchApiDataCallNoLock(c) ==
    /\ pc[c] = "idle"
    /\ issued' = Append(issued, c)
    /\ fetchCalls' = [fetchCalls EXCEPT ![c] = @ + 1]
    /\ watchdog' = [watchdog EXCEPT ![c] = "pending"]
    /\ pollingTask' = c
    /\ pc' = [pc EXCEPT ![c] = "get"]
    /\ UNCHANGED <<locked, holder, waiters, woken, lastCall, coordVars, sensors, entry2>>

\* sensor.py line 138, solax_cloud.py lines 31-40: _async_update_data calls
\* fetch_api_data, which runs up to its first suspension: either the lock is
\* free and the GET is sent, or the call queues on the lock
FetchApiDataCall(c) ==
    /\ pc[c] = "idle"
    /\ issued' = Append(issued, c)
    /\ fetchCalls' = [fetchCalls EXCEPT ![c] = @ + 1]
    /\ IF ~locked /\ waiters = <<>>
       THEN /\ SendRequest(c)
            /\ UNCHANGED <<waiters, woken>>
       ELSE /\ waiters' = Append(waiters, c)
            /\ pc' = [pc EXCEPT ![c] = "acquire"]
            /\ UNCHANGED <<locked, holder, woken, watchdog, pollingTask>>
    /\ UNCHANGED <<lastCall, coordVars, sensors, entry2>>

\* solax_cloud.py lines 33-40: the first waiter, woken by release(), takes
\* the lock, arms its timeout task and sends the GET
FetchApiDataResume(c) ==
    /\ pc[c] = "acquire"
    /\ woken
    /\ waiters # <<>>
    /\ Head(waiters) = c
    /\ waiters' = Tail(waiters)
    /\ woken' = FALSE
    /\ SendRequest(c)
    /\ UNCHANGED <<issued, fetchCalls, lastCall, coordVars, sensors, entry2>>

\* a variant in which the call that holds the lock releases it when its GET
\* completes and leaves its timeout task armed
FetchApiDataResponseReleasing(c) ==
    /\ pc[c] = "get"
    /\ \E resp \in Responses :
          LET update == _async_update_data(fetch_api_data(resp)) IN
          /\ lastCall' = [op |-> "fetch_api_data", device_id |-> "none",
                          resp |-> resp,
                          outcome |-> fetch_api_data(resp),
                          update |-> update,
                          flow |-> NoFlow]
          /\ data' = CoordinatorData(data, update)
          /\ entities' = IF issued[1] = c THEN SetupEntry(update) ELSE entities
    /\ pc' = [pc EXCEPT ![c] = "done"]
    /\ IF locked /\ holder = c
       THEN /\ locked' = FALSE
            /\ holder' = NoCall
            /\ woken' = (woken \/ waiters # <<>>)
       ELSE UNCHANGED <<locked, holder, woken>>
    /\ UNCHANGED <<waiters, watchdog, pollingTask, issued, fetchCalls, sensors, entry2>>

\* solax_cloud.py lines 41-52 and sensor.py lines 141-147: the GET of call c
\* returns or fails, fetch_api_data finishes, _async_update_data classifies
\* its outcome and the coordinator's refresh stores the data; the first call
\* issued is the first refresh of async_setup_entry (sensor.py line 31)
FetchApiDataResponse(c) ==
    /\ pc[c] = "get"
    /\ \E resp \in Responses :
          LET update == _async_update_data(fetch_api_data(resp)) IN
          /\ lastCall' = [op |-> "fetch_api_data", device_id |-> "none",
                          resp |-> resp,
                          outcome |-> fetch_api_data(resp),
                          update |-> update,
                          flow |-> NoFlow]
          /\ data' = CoordinatorData(data, update)
          /\ entities' = IF issued[1] = c THEN SetupEntry(update) ELSE entities
    /\ pc' = [pc EXCEPT ![c] = "done"]
    /\ UNCHANGED <<locked, holder, waiters, woken, watchdog, pollingTask, issued,
                   fetchCalls, sensors, entry2>>

\* a variant whose timeout task never releases the lock
PollingTimeoutNoRelease(c) ==
    /\ watchdog[c] = "pending"
    /\ watchdog' = [watchdog EXCEPT ![c] = "fired"]
    /\ pollingTask' = NoCall
    /\ UNCHANGED <<pc, locked, holder, waiters, woken, issued, fetchCalls, lastCall,
                   coordVars, sensors, entry2>>

\* solax_cloud.py lines 54-59: the timeout task armed by call c wakes up
\* after its sleep and releases the lock if it is held
_polling_timeout(c) ==
    /\ watchdog[c] = "pending"
    /\ watchdog' = [watchdog EXCEPT ![c] = "fired"]
    /\ pollingTask' = NoCall
    /\ IF locked
       THEN /\ locked' = FALSE
            /\ holder' = NoCall
            /\ woken' = (woken \/ waiters # <<>>)
       ELSE UNCHANGED <<locked, holder, woken>>
    /\ UNCHANGED <<pc, waiters, issued, fetchCalls, lastCall, coordVars, sensors, entry2>>

\* config_flow.py lines 62-85 and 33-53, solax_cloud.py lines 61-84: the user
\* submits the form, validate_input calls fetch_device_metadata on a client
\* of its own and async_step_user reports; the validation of an entry
\* precedes its polls
FetchDeviceMetadata ==
    /\ issued = <<>>
    /\ \E resp \in Responses, device_id \in DeviceIds :
          lastCall' = [op |-> "fetch_device_metadata",
                       device_id |-> device_id, resp |-> resp,
                       outcome |-> fetch_device_metadata(resp, device_id),
                       update |-> NoOutcome,
                       flow |-> async_step_user(
                                   validate_input(fetch_device_metadata(resp, device_id)))]
    /\ UNCHANGED <<pc, locked, holder, waiters, woken, watchdog, pollingTask, issued,
                   fetchCalls, coordVars, sensors, entry2>>

Next ==
    \/ \E c \in Calls : FetchApiDataCall(c)
    \/ \E c \in Calls : FetchApiDataResume(c)
    \/ \E c \in Calls : FetchApiDataResponse(c)
    \/ \E c \in Calls : _polling_timeout(c)
    \/ FetchDeviceMetadata

Spec == Init /\ [][Next]_vars

\* the event loop runs every task that is ready: a timeout task whose sleep
\* is over, and a waiter whose future is resolved; a response may never come
LiveSpec ==
    /\ Spec
    /\ \A c \in Calls : WF_vars(_polling_timeout(c))
    /\ \A c \in Calls : WF_vars(FetchApiDataResume(c))

(***************************************************************************)
(* The sensors on the coordinator's updates                                *)
(***************************************************************************)
clientVars == <<pc, locked, holder, waiters, woken, watchdog, pollingTask, issued,
                fetchCalls, lastCall, entry2>>

\* sensor.py lines 30-118: async_setup_entry: the first refresh delivers a
\* snapshot and the sensors are constructed and added
FirstRefresh ==
    /\ entities = "none"
    /\ \E snap \in Snapshots : data' = [none |-> FALSE, value |-> snap]
    /\ entities' = "registered"
    /\ sensors' = [s \in Sensors |-> NewSensor(s)]
    /\ UNCHANGED clientVars

\* sensor.py lines 174-182 and 245-272: a later successful poll stores its
\* snapshot and the coordinator calls every sensor's
\* _handle_coordinator_update; the count of writes starts again when the
\* payload differs from the one before
CoordinatorUpdate ==
    /\ entities = "registered"
    /\ \E snap \in Snapshots :
          /\ data' = [none |-> FALSE, value |-> snap]
          /\ sensors' =
                [s \in Sensors |->
                    HandleCoordinatorUpdate(
                        s,
                        IF data.value = snap
                        THEN sensors[s]
                        ELSE [sensors[s] EXCEPT !.writes = 0],
                        snap)]
    /\ UNCHANGED <<entities, clientVars>>

SensorNext ==
    \/ FirstRefresh
    \/ CoordinatorUpdate

SensorSpec == Init /\ [][SensorNext]_vars

(***************************************************************************)
(* A second config entry in the same process                               *)
(***************************************************************************)
entry1Vars == <<pc, locked, holder, waiters, woken, watchdog, pollingTask, issued,
                fetchCalls, coordVars, sensors>>

\* sensor.py line 138, solax_cloud.py lines 31-40: the second entry's
\* coordinator calls fetch_api_data on the second entry's client, which takes
\* that client's lock, arms its timeout task and sends the GET
Entry2FetchApiDataCall ==
    /\ entry2.pc = "idle"
    /\ ~entry2.locked
    /\ entry2' = [entry2 EXCEPT !.locked = TRUE, !.watchdog = "pending", !.pc = "get"]
    /\ UNCHANGED <<entry1Vars, lastCall>>

\* solax_cloud.py lines 41-52 and sensor.py lines 141-147: the second entry's
\* GET returns or fails
Entry2FetchApiDataResponse ==
    /\ entry2.pc = "get"
    /\ \E resp \in Responses :
          LET update == _async_update_data(fetch_api_data(resp)) IN
          /\ lastCall' = [op |-> "fetch_api_data", device_id |-> "none",
                          resp |-> resp,
                          outcome |-> fetch_api_data(resp),
                          update |-> update,
                          flow |-> NoFlow]
          /\ entry2' = [entry2 EXCEPT !.pc = "done",
                                      !.data = CoordinatorData(entry2.data, update)]
    /\ UNCHANGED entry1Vars

\* solax_cloud.py lines 54-59: the second client's timeout task
Entry2PollingTimeout ==
    /\ entry2.watchdog = "pending"
    /\ entry2' = [entry2 EXCEPT !.watchdog = "fired",
                                !.locked = IF entry2.locked THEN FALSE ELSE @]
    /\ UNCHANGED <<entry1Vars, lastCall>>

MultiNext ==
    \/ Next
    \/ Entry2FetchApiDataCall
    \/ Entry2FetchApiDataResponse
    \/ Entry2PollingTimeout

MultiSpec == Init /\ [][MultiNext]_vars

TypeOK ==
    /\ pc \in [Calls -> {"idle", "acquire", "get", "done"}]
    /\ locked \in BOOLEAN
    /\ holder \in Calls \cup {NoCall}
    /\ woken \in BOOLEAN
    /\ watchdog \in [Calls -> {"unarmed", "pending", "fired"}]
    /\ pollingTask \in Calls \cup {NoCall}
    /\ fetchCalls \in [Calls -> 0..1]
    /\ locked <=> (holder # NoCall)
    /\ data.none \in BOOLEAN
    /\ entities \in {"none", "registered", "failed"}
    /\ entry2.pc \in {"idle", "get", "done"}
    /\ entry2.locked \in BOOLEAN
    /\ entry2.watchdog \in {"unarmed", "pending", "fired"}
    /\ entry2.data.none \in BOOLEAN

(***************************************************************************)
(* Properties of the polling lock                                          *)
(***************************************************************************)
\* the calls whose HTTP GET is outstanding
InFlight == { c \in Calls : pc[c] = "get" }

\* call c has sent its request
Sent(c) == pc[c] \in {"get", "done"}

\* C1 (as stated): in every reachable state at most one fetch_api_data call
\* has its HTTP GET outstanding, whatever the response delay.
MutualExclusion == Cardinality(InFlight) <= 1

\* C1 (amended): at most one fetch_api_data call has its HTTP GET outstanding
\* while its own timeout task has not yet fired.
MutualExclusionUntilTimeout ==
    Cardinality({ c \in InFlight : watchdog[c] # "fired" }) <= 1

\* C1 witness: a request outlives its timeout task and the next call's
\* request is outstanding beside it
OverlapAfterTimeout ==
    \E a, b \in Calls :
        /\ a # b
        /\ pc[a] = "get" /\ watchdog[a] = "fired"
        /\ pc[b] = "get" /\ watchdog[b] = "pending" /\ holder = b

\* C2: whenever a call holds the lock with its request outstanding, its
\* timeout task eventually takes the lock away from it, and every call waiting
\* on the lock eventually sends its request, even if no response ever arrives.
WatchdogProgress ==
    /\ \A a \in Calls : (holder = a /\ pc[a] = "get") ~> (holder # a)
    /\ \A b \in Calls : (pc[b] = "acquire") ~> Sent(b)

\* C2 witness: the first request never returned, its timeout task fired, and
\* a call that had queued behind it has sent its request and finished
LaterCallProceeded ==
    \E i, j \in 1..Len(issued) :
        /\ i < j
        /\ pc[issued[i]] = "get" /\ watchdog[issued[i]] = "fired"
        /\ pc[issued[j]] = "done"

\* C3: of two calls issued one after the other, the second has not sent its
\* request unless the first has completed or the first's timeout task has
\* fired.
BackToBack ==
    \A i, j \in 1..Len(issued) :
        (i < j /\ Sent(issued[j]))
            => (pc[issued[i]] = "done" \/ watchdog[issued[i]] = "fired")

\* C3 witness: the second call's request is outstanding after the first call
\* completed and its timeout task fired
SecondSentAfterFirst ==
    \E i, j \in 1..Len(issued) :
        /\ i < j
        /\ pc[issued[j]] = "get"
        /\ pc[issued[i]] = "done" /\ watchdog[issued[i]] = "fired"

\* C4 (as stated): a call that has finished before its timeout task fired no
\* longer holds the polling lock.
ReleaseAfterReceive ==
    \A c \in Calls : (pc[c] = "done" /\ watchdog[c] = "pending") => holder # c

(***************************************************************************)
(* Properties of the response classification                               *)
(***************************************************************************)
Answered == lastCall.op # "none" /\ lastCall.resp.transport = "ok"

\* the response is HTTP 200 with a JSON body
OkJson ==
    /\ Answered
    /\ lastCall.resp.status_code = 200
    /\ lastCall.resp.parses

SuccessTrue ==
    /\ "success" \in DOMAIN lastCall.resp.data
    /\ lastCall.resp.data["success"] = JBool(TRUE)

CodeIs(n) ==
    /\ "code" \in DOMAIN lastCall.resp.data
    /\ lastCall.resp.data["code"] = JInt(n)

Raised(e) == lastCall.outcome.kind = "raise" /\ lastCall.outcome.exc = e

\* C5 (as stated): a response whose status is not 200 and that carries no
\* structured error body makes the call fail with ConnectionFailed.
NonOkIsConnectionFailed ==
    (/\ Answered
     /\ lastCall.resp.status_code # 200
     /\ ~(lastCall.resp.parses /\ (CodeIs(103) \/ CodeIs(0))))
        => Raised("ConnectionFailed")

\* C6 (as stated): a 200 response without success: true and without code 103
\* or 0 makes fetch_api_data fail with ConnectionFailed.
UnrecognizedIsConnectionFailed ==
    (/\ lastCall.op = "fetch_api_data"
     /\ OkJson
     /\ ~SuccessTrue
     /\ ~CodeIs(103) /\ ~CodeIs(0))
        => Raised("ConnectionFailed")

\* C7: for a 200 response without success: true, code 103 makes either call
\* fail with InvalidAPIToken and code 0 with InvalidDeviceSN; with
\* success: true neither error is raised, whatever the code.
ErrorCodes ==
    OkJson =>
        /\ (~SuccessTrue /\ CodeIs(103)) => Raised("InvalidAPIToken")
        /\ (~SuccessTrue /\ CodeIs(0)) => Raised("InvalidDeviceSN")
        /\ SuccessTrue => (~Raised("InvalidAPIToken") /\ ~Raised("InvalidDeviceSN"))

\* C7 witness: fetch_device_metadata answered 200 with success: false and
\* code 0
InvalidDeviceSeen ==
    /\ lastCall.op = "fetch_device_metadata"
    /\ OkJson
    /\ "success" \in DOMAIN lastCall.resp.data /\ ~SuccessTrue
    /\ CodeIs(0)
    /\ Raised("InvalidDeviceSN")

TransportIsConnectionFailed ==
    (/\ lastCall.op = "fetch_api_data"
     /\ (lastCall.resp.transport # "ok" \/ ~lastCall.resp.parses))
        => (Raised("ConnectionFailed") /\ lastCall.outcome.cause # "none")

(***************************************************************************)
(* Properties of the poll coordinator                                      *)
(***************************************************************************)
\* C10: a poll cycle calls the client exactly once; InvalidAPIToken and
\* InvalidDeviceSN become ConfigEntryAuthFailed, ConnectionFailed becomes
\* UpdateFailed, and a returned snapshot becomes the update.
PollClassification ==
    /\ \A c \in Calls : pc[c] # "idle" => fetchCalls[c] = 1
    /\ lastCall.op = "fetch_api_data" =>
          /\ (Raised("InvalidAPIToken") \/ Raised("InvalidDeviceSN"))
                => (lastCall.update.kind = "raise"
                    /\ lastCall.update.exc = "ConfigEntryAuthFailed")
          /\ Raised("ConnectionFailed")
                => (lastCall.update.kind = "raise"
                    /\ lastCall.update.exc = "UpdateFailed")
          /\ (lastCall.outcome.kind = "return" /\ ~lastCall.outcome.none)
                => (lastCall.update.kind = "return"
                    /\ lastCall.update.value = lastCall.outcome.value)

\* C10 witness: a finished poll whose fetch raised InvalidDeviceSN
AuthFailedPoll ==
    /\ \E c \in Calls : pc[c] = "done" /\ fetchCalls[c] = 1
    /\ lastCall.op = "fetch_api_data"
    /\ Raised("InvalidDeviceSN")
    /\ lastCall.update.exc = "ConfigEntryAuthFailed"

(***************************************************************************)
(* Properties of the cached snapshot and of the platform setup             *)
(***************************************************************************)
\* the poll that has just completed was answered 200 with success: true and
\* a result object
GoodPoll ==
    /\ lastCall.op = "fetch_api_data"
    /\ OkJson
    /\ SuccessTrue
    /\ "result" \in DOMAIN lastCall.resp.data

\* C11 (as stated): a poll answered with success: true makes its result the
\* cached snapshot, and a poll that ends any other way leaves the cached
\* snapshot unchanged.
CachedSnapshot ==
    [][\A c \in Calls :
          (pc[c] = "get" /\ pc'[c] = "done")
              => IF GoodPoll'
                 THEN data' = [none |-> FALSE, value |-> lastCall'.resp.data["result"]]
                 ELSE data' = data]_vars

\* C12 (as stated): entities are registered only after an initial fetch that
\* delivered a snapshot, so once they are registered the cached snapshot is
\* never empty.
RegisteredSeeSnapshot == (entities = "registered") => ~data.none

(***************************************************************************)
(* Properties of the config flow                                           *)
(***************************************************************************)
\* C13 (as stated): in async_step_user InvalidAPIToken yields invalid_api_key,
\* InvalidDeviceSN yields invalid_device and ConnectionFailed yields
\* cannot_connect; unknown is produced only for other errors, and the entry
\* is created only when the validation succeeded.
FlowMessages ==
    lastCall.op = "fetch_device_metadata" =>
        /\ Raised("InvalidAPIToken") => lastCall.flow.error = "invalid_api_key"
        /\ Raised("InvalidDeviceSN") => lastCall.flow.error = "invalid_device"
        /\ Raised("ConnectionFailed") => lastCall.flow.error = "cannot_connect"
        /\ lastCall.flow.error = "unknown"
              => ~(Raised("InvalidAPIToken") \/ Raised("InvalidDeviceSN")
                   \/ Raised("ConnectionFailed"))
        /\ lastCall.flow.entry
              => (lastCall.outcome.kind = "return" /\ ~lastCall.outcome.none)

(***************************************************************************)
(* Properties of the sensors                                               *)
(***************************************************************************)
\* sensor s has handled a coordinator update
Handled(s) == sensors[s].status # "idle"

\* C14 (as stated): over polls that all deliver the same payload a sensor
\* calls async_write_ha_state at most once in total.
NotifyOnce == \A s \in Sensors : sensors[s].writes <= 1

\* C15: the value a BiDirectionalPowerSensor reports for a stored raw value v
\* is max(0, v) for the above-zero limit and abs(min(0, v)) for the
\* below-zero limit.
SignProjections ==
    \A s \in Sensors :
        (SensorClass(s) = "BiDirectionalPowerSensor"
         /\ sensors[s].current_value.kind = "int")
            => LET v == sensors[s].current_value.n IN
               /\ sensors[s].published.kind = "int"
               /\ LimitValues(s) = "bidirectional_above_zero"
                     => sensors[s].published.n = (IF v > 0 THEN v ELSE 0)
               /\ LimitValues(s) = "bidirectional_below_zero"
                     => sensors[s].published.n = (IF v < 0 THEN 0 - v ELSE 0)

\* C15 witness: with a negative batPower stored, the charging sensor reads 0
\* and the discharging sensor reads the magnitude
DischargingSeen ==
    /\ sensors["Battery power charging"].current_value = JInt(0 - MaxPower)
    /\ sensors["Battery power charging"].published = JInt(0)
    /\ sensors["Battery power discharging"].current_value = JInt(0 - MaxPower)
    /\ sensors["Battery power discharging"].published = JInt(MaxPower)

\* C18 (as stated): after a sensor has handled an update whose snapshot value
\* for its key is a number, zero included, its stored value is that number.
TracksSnapshot ==
    \A s \in Sensors :
        (Handled(s) /\ data.value[DataKey(s)].kind = "int")
            => sensors[s].current_value = data.value[DataKey(s)]

\* C19 (as stated): the BatteryChargeSensor's handler completes without error
\* and selects an icon, whatever the snapshot and the sensor's prior state.
BatteryHandlerCompletes ==
    \A s \in Sensors :
        (SensorClass(s) = "BatteryChargeSensor" /\ Handled(s))
            => /\ sensors[s].status = "ok"
               /\ sensors[s].icon # "mdi:battery-unknown"

(***************************************************************************)
(* fetch_device_metadata beside fetch_api_data                             *)
(***************************************************************************)
\* how a call ended: with a value, with None, or the class of its error
OutcomeClass(o) ==
    IF o.kind = "return"
    THEN (IF o.none THEN "None" ELSE "value")
    ELSE o.exc

\* fetch_device_metadata ended as fetch_api_data ends on the same response,
\* and a returned value is the caller's device_id with the response's
\* inverterSN
SameAsFetchApiData ==
    /\ OutcomeClass(lastCall.outcome) = OutcomeClass(fetch_api_data(lastCall.resp))
    /\ lastCall.outcome.kind = "raise"
          => lastCall.outcome.cause = fetch_api_data(lastCall.resp).cause
    /\ (lastCall.outcome.kind = "return" /\ ~lastCall.outcome.none)
          => /\ lastCall.outcome.value["sn"] = lastCall.device_id
             /\ lastCall.outcome.value["inverterSN"]
                    = lastCall.resp.data["result"]["inverterSN"]

\* the response is a success whose result object has no inverterSN
SuccessWithoutSerial ==
    /\ OkJson
    /\ SuccessTrue
    /\ "result" \in DOMAIN lastCall.resp.data
    /\ "inverterSN" \notin DOMAIN lastCall.resp.data["result"]

\* C16 (as stated): on every response fetch_device_metadata ends in the same
\* outcome class as fetch_api_data, and on success it returns the caller's
\* device_id as sn with the response's inverterSN.
ClassifiesAlike ==
    lastCall.op = "fetch_device_metadata" => SameAsFetchApiData

\* C16 (amended): the same, except for a success: true response whose result
\* has no inverterSN.
ClassifiesAlikeWithSerial ==
    (lastCall.op = "fetch_device_metadata" /\ ~SuccessWithoutSerial)
        => SameAsFetchApiData

\* C16 witness: fetch_device_metadata for device D2 returned the metadata of
\* a success response
MetadataReturned ==
    /\ lastCall.op = "fetch_device_metadata"
    /\ lastCall.device_id = "D2"
    /\ OkJson /\ SuccessTrue
    /\ lastCall.outcome.kind = "return"
    /\ lastCall.outcome.value = [sn |-> "D2", inverterSN |-> "INV1"]

(***************************************************************************)
(* Properties across clients                                               *)
(***************************************************************************)
\* the second entry's GET is outstanding and its timeout task has not fired
Entry2InFlight == entry2.pc = "get" /\ entry2.watchdog = "pending"

\* the first entry's calls whose GET is outstanding and whose timeout task
\* has not fired
Entry1InFlight == { c \in Calls : pc[c] = "get" /\ watchdog[c] = "pending" }

\* C17 (as stated): over all clients of the process, no two fetch_api_data
\* calls have their requests in flight at the same time before a timeout
\* task has fired.
ProcessWideExclusion ==
    Cardinality(Entry1InFlight) + (IF Entry2InFlight THEN 1 ELSE 0) <= 1

\* C17 (amended): the calls of one client are exclusive before a timeout task
\* has fired: on each client the call in flight is the one holding that
\* client's lock.
PerClientExclusion ==
    /\ \A c \in Entry1InFlight : locked /\ holder = c
    /\ Entry2InFlight => entry2.locked

\* C17 witness: a call on each of the two clients is in flight, each holding
\* the lock of its own client
CrossClientOverlap ==
    /\ Entry2InFlight /\ entry2.locked
    /\ \E c \in Entry1InFlight : holder = c

(***************************************************************************)
(* Ownership of the timeout task                                           *)
(***************************************************************************)
\* the calls whose timeout task is armed and has not fired
PendingWatchdogs == { c \in Calls : watchdog[c] = "pending" }

\* C20: on one client at most one timeout task is pending at a time, and a
\* pending timeout task belongs to the call that holds the lock: the lock is
\* held, by the acquisition that armed the task, and the task is the one the
\* client refers to; so its release never hits a later holder or a free lock.
WatchdogOwnership ==
    /\ Cardinality(PendingWatchdogs) <= 1
    /\ \A c \in PendingWatchdogs : locked /\ holder = c /\ pollingTask = c

\* C20 witness: the timeout task of a finished call has fired and released the
\* lock, and a later call holds the lock with its own timeout task pending
SecondWatchdogArmed ==
    \E a, b \in Calls :
        /\ a # b
        /\ watchdog[a] = "fired" /\ pc[a] = "done"
        /\ locked /\ holder = b /\ watchdog[b] = "pending" /\ pollingTask = b

====
